---- MODULE Spec2Model ----
(***************************************************************************)
(* lil-vm: a register VM, its bytecode and its assembler.                  *)
(*                                                                         *)
(*   Spec    the assembler pipeline: a token stream is parsed by           *)
(*           Parser::program, the Program is encoded by Program::bytes,    *)
(*           the bytes become the Vm's code buffer and Vm::run executes    *)
(*           them.                                                         *)
(*   SpecVm  the Vm fed byte by byte (add_byte) and stepped with tick or   *)
(*           run, as the REPL drives it.                                   *)
(*   SpecLex the Lexer over a source text, one call of token() per step.   *)
(*   SpecExec the Vm over whole instructions, its registers and flag       *)
(*           holding what earlier instructions left in them.               *)
(*                                                                         *)
(* A Rust panic (index out of bounds, todo!(), division by zero, checked   *)
(* arithmetic) aborts the process: it is recorded in `fault` and no action *)
(* is enabled afterwards.                                                  *)
(***************************************************************************)
EXTENDS Integers, Sequences, FiniteSets, TLC

VARIABLES
    input,      \* the token stream the Lexer yields for the Parser's source
    toks,       \* the tokens the Parser has not consumed yet
    instrs,     \* Program.instrs
    errors,     \* Program.errors
    ppc,        \* position in Parser::program: "init", "loop", "done"
    regs,       \* Vm.regs
    pc,         \* Vm.pc
    code,       \* Vm.code
    rem,        \* Vm.rem
    cmp,        \* Vm.cmp
    vmst,       \* position in Vm::run: "idle", "running", "returned"
    done,       \* the value exec_instruction returned last / run's `done`
    ticks,      \* number of exec_instruction calls made
    trace,      \* what decode_opcode returned at each call, in order
                \* ("PANIC" when the decoding itself panicked)
    fault,      \* "none", or the panic that aborted the process
    src,        \* Lexer.input
    chars,      \* Lexer.chars: the characters not consumed yet
    lncol,      \* Lexer.lncol
    byte,       \* Lexer.byte
    eol,        \* Lexer.eol
    lexed,      \* the tokens token() has returned, in order
    buf,        \* the line Repl::run read last (`buf`, before trim)
    log,        \* Repl.log
    rst         \* position in Repl::run: "prompt", "tick", "exited"

vars == <<input, toks, instrs, errors, ppc, regs, pc, code, rem, cmp,
          vmst, done, ticks, trace, fault, src, chars, lncol, byte, eol,
          lexed, buf, log, rst>>

parserVars == <<input, toks, instrs, errors, ppc>>
vmVars == <<regs, pc, rem, cmp, vmst, done, ticks, trace>>
lexVars == <<src, chars, lncol, byte, eol, lexed>>
replVars == <<buf, log>>

----------------------------------------------------------------------------
(* Bounds of the model *)

MaxToks == 4
MaxCode == 4
MaxTicks == 4
MaxChars == 4
MaxEofs == 2
MaxInstrs == 1

----------------------------------------------------------------------------
(* bytecode.rs: the opcode table *)

\* The variants of OpCode in declaration order; `op as u8` is the position.
VARIANTS ==
    << "Load", "Add", "Sub", "Mul", "Div", "Jump", "JumpF", "JumpB",
       "Eq", "NotEq", "Greater", "Less", "GreaterEq", "LessEq",
       "JumpEq", "JumpNeq", "Halt", "Bad" >>

OpCodes == { VARIANTS[i] : i \in 1..Len(VARIANTS) }

\* `self.opcode as u8`: the discriminant, counted from 0 in declaration order.
as_u8(op) == (CHOOSE i \in 1..Len(VARIANTS) : VARIANTS[i] = op) - 1

\* The `arity` field each variant declares.
arity(op) ==
    CASE op = "Load" -> 2
      [] op \in {"Add", "Sub", "Mul", "Div"} -> 2
      [] op \in {"Jump", "JumpF", "JumpB"} -> 1
      [] op \in {"Eq", "NotEq", "Greater", "Less", "GreaterEq", "LessEq"} -> 2
      [] op \in {"JumpEq", "JumpNeq"} -> 1
      [] op = "Halt" -> 0
      [] op = "Bad" -> 1

\* data.rs: Arity::MAX, the number of operand slots of an Instruction.
ArityMAX == 3

\* impl From<u8> for OpCode: VARIANTS[byte as usize]; indexing past the
\* table panics, which is the result "PANIC" here.
OpCodeFrom(b) ==
    IF b < Len(VARIANTS) THEN VARIANTS[b + 1] ELSE "PANIC"

----------------------------------------------------------------------------
(* lexer.rs: tokens *)

Tok(k, op, v) == [k |-> k, op |-> op, v |-> v]
TOp(op) == Tok("Op", op, 0)
TReg(r) == Tok("Reg", "", r)
TInt(n) == Tok("Int", "", n)
TNewline == Tok("Newline", "", 0)
TUnknown == Tok("Unknown", "", 0)
TInvalidInt == Tok("InvalidInt", "", 0)
TEof == Tok("Eof", "", 0)

is_newline(t) == t.k = "Newline"

----------------------------------------------------------------------------
(* parser.rs: Operand, Instruction, Program and their encodings *)

None == [k |-> "None", v |-> 0]
OperandInt(n) == [k |-> "Int", v |-> n]
OperandReg(r) == [k |-> "Reg", v |-> r]

\* Operand::bytes with the two bytes of an integer swapped.
OperandBytesLowFirst(o) ==
    IF o.k = "Int"
    THEN LET m == o.v % 65536 IN << m % 256, (m \div 256) % 256 >>
    ELSE << o.v >>

\* Operand::bytes. `n as u16` keeps the low 16 bits; the high byte is
\* emitted first.
OperandBytes(o) ==
    IF o.k = "Int"
    THEN LET m == o.v % 65536 IN << (m \div 256) % 256, m % 256 >>
    ELSE << o.v >>

RECURSIVE OperandsBytes(_)
OperandsBytes(ops) ==
    IF ops = <<>> THEN <<>>
    ELSE (IF Head(ops).k = "None" THEN <<>> ELSE OperandBytes(Head(ops)))
         \o OperandsBytes(Tail(ops))

\* Instruction::bytes
InstructionBytes(ins) == << as_u8(ins.opcode) >> \o OperandsBytes(ins.operands)

\* Program::bytes
RECURSIVE ProgramBytes(_)
ProgramBytes(is) ==
    IF is = <<>> THEN <<>>
    ELSE InstructionBytes(Head(is)) \o ProgramBytes(Tail(is))

----------------------------------------------------------------------------
(* parser.rs: the Parser over the Lexer's token stream.  The Lexer's        *)
(* one-token lookahead (`current`) is folded into the remaining stream: a  *)
(* peek of an exhausted Lexer is None.                                     *)

\* Parser::peek
peek(ts) == IF ts = <<>> THEN TEof ELSE Head(ts)

\* Parser::is_done
Parser_is_done(ts) == ts = <<>>

\* Parser::bump: the token returned (Eof once exhausted) and the rest.
bump_tok(ts) == IF ts = <<>> THEN TEof ELSE Head(ts)
bump_rest(ts) == IF ts = <<>> THEN <<>> ELSE Tail(ts)

\* Parser::many_while with a bumping body, for the two predicates used.
RECURSIVE skip_newlines(_)
skip_newlines(ts) ==
    IF ts # <<>> /\ is_newline(Head(ts)) THEN skip_newlines(Tail(ts)) ELSE ts

RECURSIVE skip_to_newline(_)
skip_to_newline(ts) ==
    IF ts # <<>> /\ ~is_newline(Head(ts)) THEN skip_to_newline(Tail(ts)) ELSE ts

\* Parser::operand
operand(ts) ==
    IF ts # <<>> /\ Head(ts).k = "Int"
    THEN [res |-> "Ok", val |-> OperandInt(Head(ts).v), rest |-> Tail(ts)]
    ELSE IF ts # <<>> /\ Head(ts).k = "Reg"
    THEN [res |-> "Ok", val |-> OperandReg(Head(ts).v), rest |-> Tail(ts)]
    ELSE [res |-> "Err",
          val |-> [tag |-> "ExpectedOperand", tok |-> bump_tok(ts)],
          rest |-> bump_rest(ts)]

\* The operand loop with its range one short: `0..arity - 1`.
RECURSIVE operands_loop_short(_, _, _, _)
operands_loop_short(i, n, slots, ts) ==
    IF i + 1 >= n THEN [res |-> "Ok", val |-> slots, rest |-> ts]
    ELSE LET o == operand(ts) IN
         IF o.res = "Err" THEN o
         ELSE operands_loop_short(i + 1, n, [slots EXCEPT ![i + 1] = o.val], o.rest)

\* The operand loop of Parser::instruction: slots i .. n-1 are filled from
\* the stream; the first failing operand() ends the loop with its error.
RECURSIVE operands_loop(_, _, _, _)
operands_loop(i, n, slots, ts) ==
    IF i >= n THEN [res |-> "Ok", val |-> slots, rest |-> ts]
    ELSE LET o == operand(ts) IN
         IF o.res = "Err" THEN o
         ELSE operands_loop(i + 1, n, [slots EXCEPT ![i + 1] = o.val], o.rest)

\* Parser::expect_opcode followed by the rest of Parser::instruction.  A
\* token that is no Op reaches todo!(): the result "Todo".
instruction(ts) ==
    IF ts # <<>> /\ Head(ts).k = "Op"
    THEN LET op == Head(ts).op
             r == operands_loop(0, arity(op), [i \in 1..ArityMAX |-> None], Tail(ts))
         IN IF r.res = "Ok"
            THEN [res |-> "Ok",
                  val |-> [opcode |-> op, operands |-> r.val],
                  rest |-> r.rest]
            ELSE r
    ELSE [res |-> "Todo", val |-> None, rest |-> ts]

----------------------------------------------------------------------------
(* vm.rs: 32-bit arithmetic.  Register values are i32; `rem` is a u32,     *)
(* held as its two 16-bit halves; `pc` is a usize, held as the integer     *)
(* with the same bits (a value below 0 stands for a usize beyond every     *)
(* buffer length).  Overflow of +, -, * panics in a build with overflow    *)
(* checks and wraps in a build without: both outcomes are kept.            *)

NumRegs == 32
MaxI32 == 2147483647
MinI32 == (-2147483647) - 1

AddOverflows(a, b) == (b > 0 /\ a > MaxI32 - b) \/ (b < 0 /\ a < MinI32 - b)
WrapAdd(a, b) ==
    IF b > 0 /\ a > MaxI32 - b THEN (a + MinI32) + (b + MinI32)
    ELSE IF b < 0 /\ a < MinI32 - b THEN (a - MinI32) + (b - MinI32)
    ELSE a + b

SubOverflows(a, b) == (b < 0 /\ a > MaxI32 + b) \/ (b > 0 /\ a < MinI32 + b)
WrapSub(a, b) ==
    IF b < 0 /\ a > MaxI32 + b THEN (a + MinI32) - (b - MinI32)
    ELSE IF b > 0 /\ a < MinI32 + b THEN (a - MinI32) - (b + MinI32)
    ELSE a - b

\* The four bytes of an i32, least significant first.
Limbs(a) ==
    LET u == IF a >= 0 THEN a ELSE a - MinI32
        top == (u \div 16777216) + (IF a >= 0 THEN 0 ELSE 128)
    IN << u % 256, (u \div 256) % 256, (u \div 65536) % 256, top >>

FromLimbs(l) ==
    (IF l[4] >= 128 THEN (l[4] - 256) * 16777216 ELSE l[4] * 16777216)
    + l[3] * 65536 + l[2] * 256 + l[1]

\* a * b modulo 2^32, as an i32.
WrapMul(a, b) ==
    LET x == Limbs(a)
        y == Limbs(b)
        c1 == x[1] * y[1]
        c2 == x[1] * y[2] + x[2] * y[1] + (c1 \div 256)
        c3 == x[1] * y[3] + x[2] * y[2] + x[3] * y[1] + (c2 \div 256)
        c4 == x[1] * y[4] + x[2] * y[3] + x[3] * y[2] + x[4] * y[1] + (c3 \div 256)
    IN FromLimbs(<< c1 % 256, c2 % 256, c3 % 256, c4 % 256 >>)

MulOverflows(a, b) ==
    IF a = 0 \/ b = 0 THEN FALSE
    ELSE IF a = -1 THEN b = MinI32
    ELSE IF b = -1 THEN a = MinI32
    ELSE (WrapMul(a, b) \div a) # b

\* i32::rem_euclid in place of `%`: the remainder that is never negative.
RemEuclid(a, b) ==
    IF b = MinI32 THEN (IF a >= 0 THEN a ELSE a - MinI32)
    ELSE a % (IF b < 0 THEN -b ELSE b)

\* Rust's `/` and `%` on i32 for b # 0 and not (a = MinI32 and b = -1):
\* the quotient rounds toward zero, the remainder has the sign of a.
TruncRem(a, b) ==
    IF b = MinI32 THEN (IF a = MinI32 THEN 0 ELSE a)
    ELSE LET nb == IF b < 0 THEN -b ELSE b
             m == a % nb
         IN IF m # 0 /\ a < 0 THEN m - nb ELSE m

TruncDiv(a, b) ==
    IF b = MinI32 THEN (IF a = MinI32 THEN 1 ELSE 0)
    ELSE LET nb == IF b < 0 THEN -b ELSE b
             f == a \div nb
             q == IF (a % nb) # 0 /\ a < 0 THEN f + 1 ELSE f
         IN IF b < 0 THEN -q ELSE q

\* `x as u32` for an i32 x.
AsU32(x) ==
    LET u == IF x >= 0 THEN x ELSE x - MinI32
    IN [hi |-> (u \div 65536) + (IF x >= 0 THEN 0 ELSE 32768), lo |-> u % 65536]

----------------------------------------------------------------------------
(* vm.rs: Vm::exec_instruction *)

\* Vm::is_done: self.pc >= self.code.len()
Vm_is_done(p, c) == p < 0 \/ p >= Len(c)

\* What one call of exec_instruction leaves behind: the fields of the Vm,
\* the panic if it panicked, the value it returned and the opcode matched.
Outcome(r, p, m, c, f, ret, op) ==
    [regs |-> r, pc |-> p, rem |-> m, cmp |-> c, fault |-> f, ret |-> ret,
     op |-> op]

Panic(p, f, op) == Outcome(regs, p, rem, cmp, f, FALSE, op)
PanicCmp(p, c, f, op) == Outcome(regs, p, rem, c, f, FALSE, op)
\* Finish with `>` for `>=` in the value returned.
FinishPast(r, p, m, c, op) == Outcome(r, p, m, c, "none", p < 0 \/ p > Len(code), op)
Finish(r, p, m, c, op) == Outcome(r, p, m, c, "none", Vm_is_done(p, code), op)

\* RegOperand with the index taken modulo the number of registers.
RegOperandMasked(p) ==
    IF ~(p < Len(code))
    THEN [fault |-> "index_out_of_bounds", pc |-> p, val |-> 0]
    ELSE [fault |-> "none", pc |-> p + 1, val |-> regs[code[p + 1] % NumRegs]]

\* `self.regs[self.next_8_bits() as usize]` with the operand byte at p.
RegOperand(p) ==
    IF ~(p < Len(code))
    THEN [fault |-> "index_out_of_bounds", pc |-> p, val |-> 0]
    ELSE IF code[p + 1] >= NumRegs
    THEN [fault |-> "index_out_of_bounds", pc |-> p + 1, val |-> 0]
    ELSE [fault |-> "none", pc |-> p + 1, val |-> regs[code[p + 1]]]

\* Two register reads in a row, the first operand byte at p.
TwoRegs(p) ==
    LET x == RegOperand(p) IN
    IF x.fault # "none" THEN [fault |-> x.fault, pc |-> x.pc, r1 |-> 0, r2 |-> 0]
    ELSE LET y == RegOperand(x.pc) IN
         [fault |-> y.fault, pc |-> y.pc, r1 |-> x.val, r2 |-> y.val]

\* ArithResults with the operands of Sub taken in the other order.
ArithResultsSubSwapped(op, a, b) ==
    CASE op = "Add" ->
           IF AddOverflows(a, b)
           THEN {[fault |-> "overflow", val |-> 0],
                 [fault |-> "none", val |-> WrapAdd(a, b)]}
           ELSE {[fault |-> "none", val |-> a + b]}
      [] op = "Sub" ->
           IF SubOverflows(b, a)
           THEN {[fault |-> "overflow", val |-> 0],
                 [fault |-> "none", val |-> WrapSub(b, a)]}
           ELSE {[fault |-> "none", val |-> b - a]}
      [] op = "Mul" ->
           IF MulOverflows(a, b)
           THEN {[fault |-> "overflow", val |-> 0],
                 [fault |-> "none", val |-> WrapMul(a, b)]}
           ELSE {[fault |-> "none", val |-> a * b]}
      [] op = "Div" ->
           IF b = 0 THEN {[fault |-> "divide_by_zero", val |-> 0]}
           ELSE IF a = MinI32 /\ b = -1 THEN {[fault |-> "overflow", val |-> 0]}
           ELSE {[fault |-> "none", val |-> TruncDiv(a, b)]}

\* r1 + r2, r1 - r2, r1 * r2, r1 / r2 on i32: the values the build can store,
\* or the panic it raises.
ArithResults(op, a, b) ==
    CASE op = "Add" ->
           IF AddOverflows(a, b)
           THEN {[fault |-> "overflow", val |-> 0],
                 [fault |-> "none", val |-> WrapAdd(a, b)]}
           ELSE {[fault |-> "none", val |-> a + b]}
      [] op = "Sub" ->
           IF SubOverflows(a, b)
           THEN {[fault |-> "overflow", val |-> 0],
                 [fault |-> "none", val |-> WrapSub(a, b)]}
           ELSE {[fault |-> "none", val |-> a - b]}
      [] op = "Mul" ->
           IF MulOverflows(a, b)
           THEN {[fault |-> "overflow", val |-> 0],
                 [fault |-> "none", val |-> WrapMul(a, b)]}
           ELSE {[fault |-> "none", val |-> a * b]}
      [] op = "Div" ->
           IF b = 0 THEN {[fault |-> "divide_by_zero", val |-> 0]}
           ELSE IF a = MinI32 /\ b = -1 THEN {[fault |-> "overflow", val |-> 0]}
           ELSE {[fault |-> "none", val |-> TruncDiv(a, b)]}

\* The Add, Sub, Mul and Div arms; p is the offset after the opcode byte.
ArithArm(op, p) ==
    LET t == TwoRegs(p) IN
    IF t.fault # "none" THEN {Panic(t.pc, t.fault, op)}
    ELSE IF ~(t.pc < Len(code)) THEN {Panic(t.pc, "index_out_of_bounds", op)}
    ELSE LET r3 == code[t.pc + 1]
             p4 == t.pc + 1
         IN { IF v.fault # "none" THEN Panic(p4, v.fault, op)
              ELSE IF r3 >= NumRegs THEN Panic(p4, "index_out_of_bounds", op)
              ELSE Finish([regs EXCEPT ![r3] = v.val], p4,
                          IF op = "Div" THEN AsU32(TruncRem(t.r1, t.r2)) ELSE rem,
                          cmp, op)
              : v \in ArithResults(op, t.r1, t.r2) }

\* Compare on the registers read as u32: a negative value is above every
\* value that is not negative.
CompareUnsigned(op, a, b) ==
    LET below == IF (a < 0) = (b < 0) THEN a < b ELSE b < 0 IN
    CASE op = "Eq" -> a = b
      [] op = "NotEq" -> a # b
      [] op = "Greater" -> ~below /\ a # b
      [] op = "Less" -> below
      [] op = "GreaterEq" -> ~below
      [] op = "LessEq" -> below \/ a = b

\* The comparison each comparison opcode stores in `cmp`.
Compare(op, a, b) ==
    CASE op = "Eq" -> a = b
      [] op = "NotEq" -> a # b
      [] op = "Greater" -> a > b
      [] op = "Less" -> a < b
      [] op = "GreaterEq" -> a >= b
      [] op = "LessEq" -> a <= b

\* The six comparison arms: cmp is written before the third byte is read.
CompareArm(op, p) ==
    LET t == TwoRegs(p) IN
    IF t.fault # "none" THEN {Panic(t.pc, t.fault, op)}
    ELSE LET c == Compare(op, t.r1, t.r2) IN
         IF ~(t.pc < Len(code))
         THEN {PanicCmp(t.pc, c, "index_out_of_bounds", op)}
         ELSE {Finish(regs, t.pc + 1, rem, c, op)}

\* LoadArm with the comparison flag cleared by the load.
LoadArmClearsCmp(p) ==
    IF ~(p < Len(code)) THEN {Panic(p, "index_out_of_bounds", "Load")}
    ELSE IF ~(p + 2 < Len(code))
    THEN {Panic(p + 1, "index_out_of_bounds", "Load")}
    ELSE LET reg == code[p + 1]
             val == code[p + 2] * 256 + code[p + 3]
         IN IF reg >= NumRegs
            THEN {Panic(p + 3, "index_out_of_bounds", "Load")}
            ELSE {Finish([regs EXCEPT ![reg] = val], p + 3, rem, FALSE, "Load")}

\* The Load arm: next_8_bits, next_16_bits, then the register write.
LoadArm(p) ==
    IF ~(p < Len(code)) THEN {Panic(p, "index_out_of_bounds", "Load")}
    ELSE IF ~(p + 2 < Len(code))
    THEN {Panic(p + 1, "index_out_of_bounds", "Load")}
    ELSE LET reg == code[p + 1]
             val == code[p + 2] * 256 + code[p + 3]
         IN IF reg >= NumRegs
            THEN {Panic(p + 3, "index_out_of_bounds", "Load")}
            ELSE {Finish([regs EXCEPT ![reg] = val], p + 3, rem, cmp, "Load")}

\* JumpArm with `+=` in the JumpB arm.
JumpArmBackAdds(op, p) ==
    LET x == RegOperand(p) IN
    IF x.fault # "none" THEN {Panic(x.pc, x.fault, op)}
    ELSE LET dest == x.val
             q == x.pc
         IN CASE op = "Jump" -> {Finish(regs, dest, rem, cmp, op)}
              [] op = "JumpEq" ->
                   {Finish(regs, IF cmp THEN dest ELSE q, rem, cmp, op)}
              [] op \in {"JumpF", "JumpB"} ->
                   IF dest < 0 /\ q + dest >= 0
                   THEN {Panic(q, "overflow", op),
                         Finish(regs, q + dest, rem, cmp, op)}
                   ELSE {Finish(regs, q + dest, rem, cmp, op)}

\* JumpArm with the Jump arm relative to the offset after the operand.
JumpArmRelative(op, p) ==
    LET x == RegOperand(p) IN
    IF x.fault # "none" THEN {Panic(x.pc, x.fault, op)}
    ELSE LET dest == x.val
             q == x.pc
         IN CASE op = "JumpEq" ->
                   {Finish(regs, IF cmp THEN dest ELSE q, rem, cmp, op)}
              [] op \in {"Jump", "JumpF"} ->
                   IF dest < 0 /\ q + dest >= 0
                   THEN {Panic(q, "overflow", op),
                         Finish(regs, q + dest, rem, cmp, op)}
                   ELSE {Finish(regs, q + dest, rem, cmp, op)}
              [] op = "JumpB" ->
                   IF dest < 0 \/ dest > q
                   THEN {Panic(q, "overflow", op),
                         Finish(regs, q - dest, rem, cmp, op)}
                   ELSE {Finish(regs, q - dest, rem, cmp, op)}

\* JumpArm with the JumpEq arm jumping whatever cmp holds.
JumpArmAlways(op, p) ==
    LET x == RegOperand(p) IN
    IF x.fault # "none" THEN {Panic(x.pc, x.fault, op)}
    ELSE LET dest == x.val
             q == x.pc
         IN CASE op \in {"Jump", "JumpEq"} -> {Finish(regs, dest, rem, cmp, op)}
              [] op = "JumpF" ->
                   IF dest < 0 /\ q + dest >= 0
                   THEN {Panic(q, "overflow", op),
                         Finish(regs, q + dest, rem, cmp, op)}
                   ELSE {Finish(regs, q + dest, rem, cmp, op)}
              [] op = "JumpB" ->
                   IF dest < 0 \/ dest > q
                   THEN {Panic(q, "overflow", op),
                         Finish(regs, q - dest, rem, cmp, op)}
                   ELSE {Finish(regs, q - dest, rem, cmp, op)}

\* The Jump, JumpF, JumpB and JumpEq arms.  `dest as usize` of a negative
\* dest is a huge usize: += and -= then overflow (a panic, or a wrap).
JumpArm(op, p) ==
    LET x == RegOperand(p) IN
    IF x.fault # "none" THEN {Panic(x.pc, x.fault, op)}
    ELSE LET dest == x.val
             q == x.pc
         IN CASE op = "Jump" -> {Finish(regs, dest, rem, cmp, op)}
              [] op = "JumpEq" ->
                   {Finish(regs, IF cmp THEN dest ELSE q, rem, cmp, op)}
              [] op = "JumpF" ->
                   IF dest < 0 /\ q + dest >= 0
                   THEN {Panic(q, "overflow", op),
                         Finish(regs, q + dest, rem, cmp, op)}
                   ELSE {Finish(regs, q + dest, rem, cmp, op)}
              [] op = "JumpB" ->
                   IF dest < 0 \/ dest > q
                   THEN {Panic(q, "overflow", op),
                         Finish(regs, q - dest, rem, cmp, op)}
                   ELSE {Finish(regs, q - dest, rem, cmp, op)}

\* Vm::decode_opcode and the match on its result.  The match has no arm for
\* JumpNeq: executing it has no defined outcome and is recorded as a fault.
ExecOutcomes ==
    IF Vm_is_done(pc, code)
    THEN {Outcome(regs, pc, rem, cmp, "none", TRUE, "none")}
    ELSE LET op == OpCodeFrom(code[pc + 1])
             p == pc + 1
         IN CASE op = "PANIC" -> {Panic(pc, "index_out_of_bounds", "PANIC")}
              [] op \in {"Halt", "Bad"} ->
                   {Outcome(regs, p, rem, cmp, "none", TRUE, op)}
              [] op = "Load" -> LoadArm(p)
              [] op \in {"Add", "Sub", "Mul", "Div"} -> ArithArm(op, p)
              [] op \in {"Jump", "JumpF", "JumpB", "JumpEq"} -> JumpArm(op, p)
              [] op \in {"Eq", "NotEq", "Greater", "Less", "GreaterEq", "LessEq"} ->
                   CompareArm(op, p)
              [] op = "JumpNeq" -> {Panic(p, "no_match_arm", op)}

----------------------------------------------------------------------------
(* assembler/lexer.rs: Lexer.  Characters are one-character strings, a    *)
(* source text is a sequence of them (all of one byte, so that a byte     *)
(* offset is a character count).                                          *)

Whitespace == { " ", "\n", "\t", "\r" }
DecDigits == { "0", "1", "2", "3", "4", "5", "6", "7", "8", "9" }
HexDigits == DecDigits \cup { "a", "b", "c", "d", "e", "f",
                              "A", "B", "C", "D", "E", "F" }
Alphabetic ==
    { "a", "b", "c", "d", "e", "f", "g", "h", "i", "j", "k", "l", "m",
      "n", "o", "p", "q", "r", "s", "t", "u", "v", "w", "x", "y", "z",
      "A", "B", "C", "D", "E", "F", "G", "H", "I", "J", "K", "L", "M",
      "N", "O", "P", "Q", "R", "S", "T", "U", "V", "W", "X", "Y", "Z" }
Punctuation == { ";", "$", "#", "!", ",", "-" }
Char == Whitespace \cup DecDigits \cup Alphabetic \cup Punctuation

\* char::to_digit(10) of a decimal digit
DigitValue(c) ==
    CASE c = "0" -> 0 [] c = "1" -> 1 [] c = "2" -> 2 [] c = "3" -> 3
      [] c = "4" -> 4 [] c = "5" -> 5 [] c = "6" -> 6 [] c = "7" -> 7
      [] c = "8" -> 8 [] c = "9" -> 9

\* OpCode::from_str: the spellings the declaration of OpCode lists.
Spellings ==
    {
      <<<<"l", "o", "a", "d">>, "Load">>,
      <<<<"L", "O", "A", "D">>, "Load">>,
      <<<<"a", "d", "d">>, "Add">>,
      <<<<"A", "D", "D">>, "Add">>,
      <<<<"s", "u", "b">>, "Sub">>,
      <<<<"S", "U", "B">>, "Sub">>,
      <<<<"m", "u", "l">>, "Mul">>,
      <<<<"M", "U", "L">>, "Mul">>,
      <<<<"d", "i", "v">>, "Div">>,
      <<<<"D", "I", "V">>, "Div">>,
      <<<<"j", "m", "p">>, "Jump">>,
      <<<<"J", "M", "P">>, "Jump">>,
      <<<<"j", "m", "p", "f">>, "JumpF">>,
      <<<<"J", "M", "P", "F">>, "JumpF">>,
      <<<<"j", "m", "p", "b">>, "JumpB">>,
      <<<<"J", "M", "P", "B">>, "JumpB">>,
      <<<<"e", "q">>, "Eq">>,
      <<<<"E", "Q">>, "Eq">>,
      <<<<"n", "e", "q">>, "NotEq">>,
      <<<<"N", "E", "Q">>, "NotEq">>,
      <<<<"g", "t">>, "Greater">>,
      <<<<"G", "T">>, "Greater">>,
      <<<<"l", "t">>, "Less">>,
      <<<<"L", "T">>, "Less">>,
      <<<<"g", "t", "e">>, "GreaterEq">>,
      <<<<"G", "T", "E">>, "GreaterEq">>,
      <<<<"l", "t", "e">>, "LessEq">>,
      <<<<"L", "T", "E">>, "LessEq">>,
      <<<<"j", "m", "p", "e">>, "JumpEq">>,
      <<<<"J", "M", "P", "E">>, "JumpEq">>,
      <<<<"j", "m", "p", "n", "e">>, "JumpNeq">>,
      <<<<"J", "M", "P", "N", "E">>, "JumpNeq">>,
      <<<<"h", "a", "l", "t">>, "Halt">>,
      <<<<"H", "A", "L", "T">>, "Halt">>,
      <<<<"b", "a", "d">>, "Bad">>,
      <<<<"B", "A", "D">>, "Bad">>
    }

\* "" stands for None.
OpCode_from_str(word) ==
    IF \E s \in Spellings : s[1] = word
    THEN (CHOOSE s \in Spellings : s[1] = word)[2]
    ELSE ""

\* A Token: its Lexeme, with the payload of the variant (the OpCode, the
\* Reg or Int value, the two byte offsets of an error token).
Lexeme(k, op, v, a, b) == [k |-> k, op |-> op, v |-> v, a |-> a, b |-> b]
LexNewline == Lexeme("Newline", "", 0, 0, 0)
LexEof == Lexeme("Eof", "", 0, 0, 0)
LexOp(op) == Lexeme("Op", op, 0, 0, 0)
LexReg(n) == Lexeme("Reg", "", n, 0, 0)
LexInt(n) == Lexeme("Int", "", n, 0, 0)
LexInvalidInt(a, b) == Lexeme("InvalidInt", "", 0, a, b)
LexUnknown(a, b) == Lexeme("Unknown", "", 0, a, b)

\* The fields of a Lexer that token() reads and writes.
LexState(cs, b, lc, e) == [chars |-> cs, byte |-> b, lncol |-> lc, eol |-> e]

\* Lexer::next_char with a character left: a '\n' starts the next line.
next_char(st) ==
    LET c == Head(st.chars) IN
    [st EXCEPT !.chars = Tail(@),
               !.byte = @ + 1,
               !.lncol = IF c = "\n" THEN << @[1] + 1, 0 >>
                         ELSE << @[1], @[2] + 1 >>]

\* Lexer::eat_while with the predicate given as the set it accepts; the
\* span it returns is (st.byte, eat_while(st, S).byte).
RECURSIVE eat_while(_, _)
eat_while(st, S) ==
    IF st.chars # <<>> /\ Head(st.chars) \in S
    THEN eat_while(next_char(st), S)
    ELSE st

\* Lexer::eat_whitespace skipping only up to the end of the current line.
eat_whitespace_one_line(st) ==
    LET line == st.lncol[1]
        s1 == eat_while(st, Whitespace \ {"\n"})
        s2 == IF s1.chars # <<>> /\ Head(s1.chars) = "\n" THEN next_char(s1)
              ELSE s1
    IN [s2 EXCEPT !.eol = line < s2.lncol[1]]

\* Lexer::eat_whitespace with `<=` for `<`.
eat_whitespace_le(st) ==
    LET line == st.lncol[1]
        s2 == eat_while(st, Whitespace)
    IN [s2 EXCEPT !.eol = line <= s2.lncol[1]]

\* Lexer::eat_whitespace
eat_whitespace(st) ==
    LET line == st.lncol[1]
        s2 == eat_while(st, Whitespace)
    IN [s2 EXCEPT !.eol = line < s2.lncol[1]]

MaxU8 == 255

\* <N as FromStr>::from_str on a run of digits, N = u8 or i32 with the
\* greatest value max: the run is read in base 10 whatever digits it was
\* cut by; -1 stands for Err (an empty run, a digit above 9, a value
\* above max).
RECURSIVE DecimalFrom(_, _, _)
DecimalFrom(cs, acc, max) ==
    IF cs = <<>> THEN acc
    ELSE IF Head(cs) \notin DecDigits THEN -1
    ELSE LET d == DigitValue(Head(cs)) IN
         IF acc > (max - d) \div 10 THEN -1
         ELSE DecimalFrom(Tail(cs), acc * 10 + d, max)

from_str(cs, max) == IF cs = <<>> THEN -1 ELSE DecimalFrom(cs, 0, max)

\* Lexer::number::<N, R>: the digits of base R are eaten, the text is parsed.
number(st, digits, max) ==
    LET s2 == eat_while(st, digits)
        v == from_str(SubSeq(st.chars, 1, s2.byte - st.byte), max)
    IN [st |-> s2, ok |-> v >= 0, val |-> v, start |-> st.byte, end |-> s2.byte]

Returned(tok, st) == [tok |-> tok, st |-> st, fault |-> "none"]

\* Lexer::ident
ident(st) ==
    LET s2 == eat_while(st, Alphabetic)
        op == OpCode_from_str(SubSeq(st.chars, 1, s2.byte - st.byte))
    IN IF op # "" THEN Returned(LexOp(op), s2)
       ELSE Returned(LexUnknown(st.byte, s2.byte), s2)

\* The `#` and bare-digit arms of token(): number::<i32, 10>.
int_token(st) ==
    LET n == number(st, DecDigits, MaxI32) IN
    IF n.ok THEN Returned(LexInt(n.val), n.st)
    ELSE Returned(LexInvalidInt(n.start, n.end), n.st)

\* Lexer::token: what it returns, the Lexer it leaves, the panic if any.
RECURSIVE token(_)
token(st) ==
    LET s1 == eat_whitespace(st) IN
    IF s1.eol THEN Returned(LexNewline, [s1 EXCEPT !.eol = FALSE])
    ELSE IF s1.chars = <<>> THEN Returned(LexEof, s1)
    ELSE LET c == Head(s1.chars) IN
         CASE c = ";" -> token(eat_while(s1, Char \ {"\n"}))
           [] c = "$" ->
                LET s2 == next_char(s1) IN
                IF s2.chars # <<>> /\ Head(s2.chars) \in HexDigits
                THEN LET n == number(s2, HexDigits, MaxU8) IN
                     IF n.ok THEN Returned(LexReg(n.val), n.st)
                     ELSE Returned(LexInvalidInt(n.start, n.end), n.st)
                ELSE Returned(LexUnknown(s2.byte - 1, s2.byte), s2)
           [] c = "#" -> int_token(next_char(s1))
           [] c \in Alphabetic -> ident(s1)
           [] c \in DecDigits -> int_token(s1)
           [] OTHER -> [tok |-> LexEof, st |-> s1, fault |-> "todo"]

----------------------------------------------------------------------------
(* Inputs *)

\* Tokens the Lexer can yield: every opcode, a register, integers below
\* and above 16 bits, a line boundary and its error tokens.
RestTokens ==
    { TOp("Load"), TOp("Halt"), TReg(0), TInt(500), TInt(70000), TNewline,
      TUnknown }
FirstTokens == RestTokens \cup { TOp(op) : op \in OpCodes } \cup { TInvalidInt }

RECURSIVE SeqsUpTo(_, _)
SeqsUpTo(S, n) ==
    IF n = 0 THEN { <<>> }
    ELSE LET shorter == SeqsUpTo(S, n - 1)
         IN shorter \cup { Append(s, x) : s \in shorter, x \in S }

TokenStreams ==
    { <<>> } \cup { <<f>> \o r : f \in FirstTokens, r \in SeqsUpTo(RestTokens, MaxToks - 1) }

\* Bytes of a code buffer: opcodes (which are register indices and literal
\* bytes as well), the two bytes the table does not reach.
CodeBytes == { 0, 1, 2, 5, 16, 17, 200, 254 }
CodeBuffers == SeqsUpTo(CodeBytes, MaxCode)

\* Characters of a source text: a blank and a line end, the three marks,
\* a decimal digit, a letter that is a hexadecimal digit, two letters that
\* spell an opcode ("gt"), a character no arm of token() names.
SourceChars == { " ", "\n", ";", "$", "#", "1", "a", "g", "t", "!" }
Sources == SeqsUpTo(SourceChars, MaxChars)

\* The source text of the Lexer's test test_registers.
RegistersSource == << " ", "$", "1", " ", "$", "2" >>

\* What earlier instructions can have left in registers 0 and 1 (every
\* i32 is the result of some Load, Add, Sub and Mul): the ends of the
\* range, a negative value, zero, small and larger positive values.
Reg0Values == { MinI32, -7, 0, 500, MaxI32 }
Reg1Values == { -1, 0, 2, 500 }

\* Whole instructions as the bytes exec_instruction reads: the opcode,
\* then register indices (the destination apart from, or equal to, one of
\* the sources) or a 16-bit literal.
ArithWords ==
    { << as_u8(op) >> \o regsOf :
        op \in {"Add", "Sub", "Mul", "Div"},
        regsOf \in { << 0, 1, 2 >>, << 0, 1, 0 >>, << 1, 0, 0 >> } }
CompareWords ==
    { << as_u8(op), 0, 1, third >> :
        op \in {"Eq", "NotEq", "Greater", "Less", "GreaterEq", "LessEq"},
        third \in { 2, 200 } }
JumpWords == { << as_u8(op), 1 >> : op \in {"Jump", "JumpF", "JumpB", "JumpEq"} }
LoadWords == { << as_u8("Load"), 0, 1, 244 >>, << as_u8("Load"), 2, 255, 255 >> }
\* Instructions with a register index of 32, and instructions cut short.
FaultWords ==
    { << as_u8("Add"), 32, 1, 2 >>, << as_u8("Div"), 0, 1, 32 >>,
      << as_u8("Load"), 32, 1, 244 >>, << as_u8("Jump"), 32 >>,
      << as_u8("Eq"), 0, 32, 2 >>,
      << as_u8("Add"), 0, 1 >>, << as_u8("Div"), 0 >>,
      << as_u8("Load"), 0, 1 >>, << as_u8("Jump") >>, << as_u8("Eq"), 0, 1 >> }
Words ==
    ArithWords \cup CompareWords \cup JumpWords \cup LoadWords
      \cup FaultWords \cup { << as_u8("Halt") >> }

RECURSIVE Flatten(_)
Flatten(ws) == IF ws = <<>> THEN <<>> ELSE Head(ws) \o Flatten(Tail(ws))

\* `LOAD $0 #0` then `JMP $0`, the example of OpCode::Jump's comment.
LoopProgram == << 0, 0, 0, 0,  5, 0 >>

\* The programs of the Vm's tests test_opcode_add and test_opcode_eq (the
\* second with the change of register 1 done by a Load), and LoopProgram.
TestPrograms ==
    { << 0, 0, 1, 244,  0, 1, 1, 244,  1, 0, 1, 2 >>,
      << 8, 0, 1, 0,  0, 1, 0, 20,  8, 0, 1, 0 >>,
      LoopProgram }

\* `load $2 #65535` then `mul $2 $2 $2`: 65535 * 65535 on a new Vm.
OverflowProgram == << as_u8("Load"), 2, 255, 255,  as_u8("Mul"), 2, 2, 2 >>

ExecPrograms ==
    { Flatten(ws) : ws \in SeqsUpTo(Words, MaxInstrs) \ { <<>> } } \cup TestPrograms

----------------------------------------------------------------------------
(* State after construction: Parser::new over the token stream, Vm::new *)

VmNew ==
    /\ regs = [i \in 0..(NumRegs - 1) |-> 0]
    /\ pc = 0
    /\ rem = [hi |-> 0, lo |-> 0]
    /\ cmp = FALSE
    /\ vmst = "idle"
    /\ done = FALSE
    /\ ticks = 0
    /\ trace = <<>>
    /\ fault = "none"

ParserNew(ts) ==
    /\ input = ts
    /\ toks = ts
    /\ instrs = <<>>
    /\ errors = <<>>
    /\ ppc = "init"

\* Repl::new, about to read its first line.
ReplNew ==
    /\ buf = <<>>
    /\ log = <<>>
    /\ rst = "prompt"

\* Lexer::new
LexerNew(s) ==
    /\ src = s
    /\ chars = s
    /\ lncol = << 1, 0 >>
    /\ byte = 0
    /\ eol = (s # <<>> /\ Head(s) = "\n")
    /\ lexed = <<>>

Init ==
    /\ \E ts \in TokenStreams : ParserNew(ts)
    /\ VmNew
    /\ code = <<>>
    /\ LexerNew(<<>>)
    /\ ReplNew

InitVm ==
    /\ ParserNew(<<>>)
    /\ VmNew
    /\ code \in CodeBuffers \cup {OverflowProgram}
    /\ LexerNew(<<>>)
    /\ ReplNew

\* A Vm whose registers 0 and 1 and whose flag hold what earlier
\* instructions left, about to execute a program (the Vm's tests prepare
\* it so: they assign regs, cmp and code of a new Vm).
InitExec ==
    /\ ParserNew(<<>>)
    /\ LexerNew(<<>>)
    /\ \E x \in Reg0Values, y \in Reg1Values :
         regs = [i \in 0..(NumRegs - 1) |-> IF i = 0 THEN x ELSE IF i = 1 THEN y ELSE 0]
    /\ cmp \in BOOLEAN
    /\ code \in ExecPrograms
    /\ pc = 0
    /\ rem = [hi |-> 0, lo |-> 0]
    /\ vmst = "idle"
    /\ done = FALSE
    /\ ticks = 0
    /\ trace = <<>>
    /\ fault = "none"
    /\ ReplNew

InitLex ==
    /\ ParserNew(<<>>)
    /\ VmNew
    /\ code = <<>>
    /\ \E s \in Sources \cup {RegistersSource} : LexerNew(s)
    /\ ReplNew

----------------------------------------------------------------------------
(* parser.rs: Parser::program, one action per part of its body *)

\* The leading skip_newlines and the empty Program.
ParserStart ==
    /\ ppc = "init" /\ fault = "none"
    /\ toks' = skip_newlines(toks)
    /\ ppc' = "loop"
    /\ UNCHANGED <<input, instrs, errors, fault>>
    /\ UNCHANGED <<code>> /\ UNCHANGED vmVars /\ UNCHANGED lexVars
    /\ UNCHANGED replVars /\ UNCHANGED rst

\* One iteration of `while !self.is_done()`: instruction(), the push of its
\* result (with the skip to the next Newline after an Err), skip_newlines.
ParserIter ==
    /\ ppc = "loop" /\ fault = "none"
    /\ ~Parser_is_done(toks)
    /\ LET r == instruction(toks) IN
       CASE r.res = "Ok" ->
              /\ instrs' = Append(instrs, r.val)
              /\ toks' = skip_newlines(r.rest)
              /\ UNCHANGED <<errors, fault>>
         [] r.res = "Err" ->
              /\ errors' = Append(errors, r.val)
              /\ toks' = skip_newlines(skip_to_newline(r.rest))
              /\ UNCHANGED <<instrs, fault>>
         [] r.res = "Todo" ->
              /\ fault' = "todo"
              /\ UNCHANGED <<toks, instrs, errors>>
    /\ UNCHANGED <<input, ppc, code>> /\ UNCHANGED vmVars /\ UNCHANGED lexVars
    /\ UNCHANGED replVars /\ UNCHANGED rst

\* The loop's exit: Ok(program).
ParserReturn ==
    /\ ppc = "loop" /\ fault = "none"
    /\ Parser_is_done(toks)
    /\ ppc' = "done"
    /\ UNCHANGED <<input, toks, instrs, errors, fault, code>>
    /\ UNCHANGED vmVars /\ UNCHANGED lexVars
    /\ UNCHANGED replVars /\ UNCHANGED rst

\* Program::bytes of the returned Program becomes the Vm's code.
LoadProgram ==
    /\ ppc = "done" /\ fault = "none"
    /\ code' = ProgramBytes(instrs)
    /\ ppc' = "loaded"
    /\ UNCHANGED <<input, toks, instrs, errors, fault>>
    /\ UNCHANGED vmVars /\ UNCHANGED lexVars
    /\ UNCHANGED replVars /\ UNCHANGED rst

----------------------------------------------------------------------------
(* vm.rs: tick and run *)

\* One call of exec_instruction.
Exec ==
    /\ ticks < MaxTicks
    /\ \E o \in ExecOutcomes :
         /\ regs' = o.regs
         /\ pc' = o.pc
         /\ rem' = o.rem
         /\ cmp' = o.cmp
         /\ fault' = o.fault
         /\ done' = o.ret
         /\ trace' = IF o.op = "none" THEN trace ELSE Append(trace, o.op)
    /\ ticks' = ticks + 1
    /\ UNCHANGED code /\ UNCHANGED parserVars /\ UNCHANGED lexVars
    /\ UNCHANGED replVars

\* Vm::tick
Tick ==
    /\ vmst \in {"idle", "returned"} /\ fault = "none"
    /\ Exec
    /\ UNCHANGED <<vmst, rst>>

\* Vm::run: `let mut done = self.is_done();`
RunStart ==
    /\ vmst = "idle" /\ fault = "none"
    /\ done' = Vm_is_done(pc, code)
    /\ vmst' = "running"
    /\ UNCHANGED <<regs, pc, code, rem, cmp, ticks, trace, fault>>
    /\ UNCHANGED parserVars /\ UNCHANGED lexVars
    /\ UNCHANGED replVars /\ UNCHANGED rst

\* Vm::run: one iteration of `while !done`.
RunStep ==
    /\ vmst = "running" /\ fault = "none"
    /\ ~done
    /\ Exec
    /\ UNCHANGED <<vmst, rst>>

\* Vm::run: the loop's exit.
RunReturn ==
    /\ vmst = "running" /\ fault = "none"
    /\ done
    /\ vmst' = "returned"
    /\ UNCHANGED <<regs, pc, code, rem, cmp, done, ticks, trace, fault>>
    /\ UNCHANGED parserVars /\ UNCHANGED lexVars
    /\ UNCHANGED replVars /\ UNCHANGED rst

\* In the pipeline the Vm runs the assembled Program once.
RunProgram == ppc = "loaded" /\ RunStart

Next ==
    \/ ParserStart
    \/ ParserIter
    \/ ParserReturn
    \/ LoadProgram
    \/ RunProgram
    \/ RunStep
    \/ RunReturn

Spec == Init /\ [][Next]_vars

NextVm ==
    \/ Tick
    \/ RunStart
    \/ RunStep
    \/ RunReturn

SpecVm == InitVm /\ [][NextVm]_vars

SpecExec == InitExec /\ [][NextVm]_vars

----------------------------------------------------------------------------
(* lexer.rs: one call of Lexer::token *)

LexerToken ==
    /\ fault = "none"
    /\ Len(lexed) < Len(src) + MaxEofs
    /\ LET r == token(LexState(chars, byte, lncol, eol)) IN
       /\ chars' = r.st.chars
       /\ byte' = r.st.byte
       /\ lncol' = r.st.lncol
       /\ eol' = r.st.eol
       /\ fault' = r.fault
       /\ lexed' = IF r.fault = "none" THEN Append(lexed, r.tok) ELSE lexed
    /\ UNCHANGED <<src, code>> /\ UNCHANGED parserVars /\ UNCHANGED vmVars
    /\ UNCHANGED replVars /\ UNCHANGED rst

NextLex == LexerToken

SpecLex == InitLex /\ [][NextLex]_vars

----------------------------------------------------------------------------
(* Properties of the assembler pipeline (Spec) *)

Opcodes(is) == [i \in 1..Len(is) |-> is[i].opcode]

\* The byte offsets at which the instructions of a Program start, and its end.
InstrOffsets(is) == { Len(ProgramBytes(SubSeq(is, 1, k))) : k \in 0..Len(is) }

JumpOps == {"Jump", "JumpF", "JumpB", "JumpEq", "JumpNeq"}
NoJump(tr) == \A i \in 1..Len(tr) : tr[i] \notin JumpOps

\* The opcodes a straight-line Program dispatches: all of them up to and
\* including the first that ends the run.
RECURSIVE UpToStop(_)
UpToStop(ops) ==
    IF ops = <<>> THEN <<>>
    ELSE IF Head(ops) \in {"Halt", "Bad"} THEN << Head(ops) >>
    ELSE << Head(ops) >> \o UpToStop(Tail(ops))

\* An instruction written the way its mnemonic's syntax has it: registers
\* for operands, and an integer for the value LOAD loads.
SyntaxOperands(ins) ==
    /\ ins.opcode \notin {"Bad", "JumpNeq"}
    /\ \A i \in 1..3 :
         ins.operands[i].k \in
            {"None", IF ins.opcode = "Load" /\ i = 2 THEN "Int" ELSE "Reg"}

\* C1: encoder/decoder agreement.  Running the bytes of an error-free
\* Program of executable, well-formed instructions (one without jumps,
\* which move the program counter on purpose) never reads an operand past
\* the buffer, starts every decode at an instruction boundary, and
\* dispatches exactly the Program's opcodes in source order.
C1_EncoderDecoderAgreement ==
    ( /\ ppc = "loaded" /\ errors = <<>>
      /\ NoJump(Opcodes(instrs))
      /\ \A i \in 1..Len(instrs) : SyntaxOperands(instrs[i])
      /\ fault \notin {"divide_by_zero", "overflow"} )
    => /\ fault = "none"
       /\ pc \in InstrOffsets(instrs)
       /\ Len(trace) <= Len(instrs)
       /\ trace = SubSeq(Opcodes(instrs), 1, Len(trace))
       /\ (vmst = "returned" => trace = UpToStop(Opcodes(instrs)))


\* What an encoded operand is: a register is its one index byte, an integer
\* is two bytes that read, high byte first, as the low 16 bits of the value.
IsEncodingOf(bytes, o) ==
    IF o.k = "Reg" THEN bytes = << o.v >>
    ELSE /\ Len(bytes) = 2
         /\ bytes[1] \in 0..255 /\ bytes[2] \in 0..255
         /\ bytes[1] * 256 + bytes[2] = o.v % 65536

Populated(ins) == { i \in 1..3 : ins.operands[i].k # "None" }
Width(o) == IF o.k = "Int" THEN 2 ELSE IF o.k = "Reg" THEN 1 ELSE 0

\* `bytes` from offset `at` on holds the instructions `is` back to back:
\* the opcode's code, then each populated operand in slot order.
RECURSIVE HoldsProgram(_, _, _)
HoldsProgram(bytes, at, is) ==
    IF is = <<>> THEN at = Len(bytes)
    ELSE LET ins == Head(is)
             o1 == at + 1
             o2 == o1 + Width(ins.operands[1])
             o3 == o2 + Width(ins.operands[2])
             end == o3 + Width(ins.operands[3])
             starts == << o1, o2, o3 >>
         IN /\ end <= Len(bytes)
            /\ bytes[at + 1] = as_u8(ins.opcode)
            /\ \A i \in Populated(ins) :
                 IsEncodingOf(SubSeq(bytes, starts[i] + 1,
                                     starts[i] + Width(ins.operands[i])),
                              ins.operands[i])
            /\ HoldsProgram(bytes, end, Tail(is))

LoadLine == << TOp("Load"), TReg(0), TInt(500) >>

----------------------------------------------------------------------------
(* Lines of a token stream *)

IsOperandTok(t) == t.k \in {"Reg", "Int"}
NoNewline(l) == \A i \in 1..Len(l) : ~is_newline(l[i])

\* The tokens up to the first Newline.
RECURSIVE CurLine(_)
CurLine(ts) ==
    IF ts = <<>> \/ is_newline(Head(ts)) THEN <<>>
    ELSE << Head(ts) >> \o CurLine(Tail(ts))

\* How many operand tokens follow the first token of a line directly.
RECURSIVE LeadingOperands(_)
LeadingOperands(l) ==
    IF l = <<>> \/ ~IsOperandTok(Head(l)) THEN 0
    ELSE 1 + LeadingOperands(Tail(l))

StartsWithOp(l) == l # <<>> /\ l[1].k = "Op"

\* A mnemonic followed by exactly arity-many operands, and nothing else.
WellFormedLine(l) ==
    /\ StartsWithOp(l)
    /\ Len(l) = 1 + arity(l[1].op)
    /\ LeadingOperands(Tail(l)) = arity(l[1].op)

\* A mnemonic followed by fewer operands than its arity.
ShortLine(l) ==
    /\ StartsWithOp(l)
    /\ LeadingOperands(Tail(l)) < arity(l[1].op)

\* The Instruction a well-formed line stands for: its operands in the order
\* met, the remaining slots empty.
ExpectedInstr(l) ==
    [opcode |-> l[1].op,
     operands |-> [i \in 1..3 |->
                     IF i + 1 <= Len(l)
                     THEN [k |-> l[i + 1].k, v |-> l[i + 1].v]
                     ELSE None]]

\* C3: skip-to-newline recovery is line-local.  For a two-line source whose
\* first line is an opcode with too few operands and whose second line is
\* well-formed, the returned Program has exactly one Error and exactly one
\* Instruction, the one of line 2.
C3_LineLocalRecovery ==
    \A k \in 1..Len(input) :
        LET l1 == SubSeq(input, 1, k - 1)
            l2 == SubSeq(input, k + 1, Len(input))
        IN ( /\ is_newline(input[k])
             /\ NoNewline(l1) /\ ShortLine(l1)
             /\ WellFormedLine(l2)
             /\ ppc = "done" )
           => /\ Len(errors) = 1
              /\ instrs = << ExpectedInstr(l2) >>

\* C4: in every iteration of Parser::program, a line that is a mnemonic m
\* followed by exactly arity(m) operand tokens adds exactly one Instruction,
\* its first arity(m) slots holding the operands in the order met and the
\* others empty, adds no Error and consumes exactly that line; a line with
\* fewer operands adds one Error and no Instruction.
C4_ArityOperands ==
    [][ (ppc = "loop" /\ ppc' = "loop") =>
          LET l == CurLine(toks) IN
          /\ WellFormedLine(l) =>
                /\ fault' = "none"
                /\ instrs' = Append(instrs, ExpectedInstr(l))
                /\ errors' = errors
                /\ toks' = skip_newlines(SubSeq(toks, Len(l) + 1, Len(toks)))
          /\ ShortLine(l) =>
                /\ fault' = "none"
                /\ instrs' = instrs
                /\ Len(errors') = Len(errors) + 1
      ]_vars

\* C4 witness: `load $0 #500` has been parsed into one Instruction.
C4_Witness ==
    /\ ppc = "loop"
    /\ input = LoadLine
    /\ toks = <<>>
    /\ errors = <<>>
    /\ instrs = << [opcode |-> "Load",
                    operands |-> << OperandReg(0), OperandInt(500), None >>] >>

\* C9: an Error recorded because the input ended where a token was
\* required (the offending token is Eof) carries the tag UnexpectedEof.
C9_UnexpectedEof ==
    \A i \in 1..Len(errors) :
        errors[i].tok.k = "Eof" => errors[i].tag = "UnexpectedEof"

\* C10: Parser::program never aborts: whatever the token stream, it does
\* not panic before it returns its Program.
C10_ParserNeverAborts ==
    ppc \in {"init", "loop"} => fault = "none"

----------------------------------------------------------------------------
(* Properties of the Vm on a code buffer (SpecVm) *)

Fresh ==
    /\ regs = [i \in 0..(NumRegs - 1) |-> 0]
    /\ rem = [hi |-> 0, lo |-> 0]
    /\ cmp = FALSE

\* The byte values the opcode table assigns.
Assigned == { as_u8(op) : op \in OpCodes } \cup { 254 }

\* C5: decoding is total.  No decode_opcode call panics; the byte 254
\* decodes to Halt and an unassigned byte to Bad (the first decode of a
\* fresh Vm reads code[0]).
C5_DecodeTotal ==
    /\ \A i \in 1..Len(trace) : trace[i] \in OpCodes
    /\ (trace # <<>> /\ code[1] = 254) => trace[1] = "Halt"
    /\ (trace # <<>> /\ code[1] \notin Assigned) => trace[1] = "Bad"

\* C6: a buffer whose first byte is 254 (Halt) is terminal after exactly one
\* tick, with the program counter at 1 and no register or flag changed,
\* whatever follows the first byte.
C6_HaltByte254 ==
    (code # <<>> /\ code[1] = 254 /\ ticks = 1) =>
        /\ fault = "none" /\ done
        /\ pc = 1
        /\ trace = << "Halt" >>
        /\ Fresh

\* C7: a buffer whose first byte is the unassigned value 200 ends after one
\* tick as a Bad opcode with the program counter at 1: no operand byte is
\* consumed, no register or flag changed.
C7_BadByte200 ==
    (code # <<>> /\ code[1] = 200 /\ ticks = 1) =>
        /\ fault = "none" /\ done
        /\ pc = 1
        /\ trace = << "Bad" >>
        /\ Fresh

\* What the first tick of a fresh Vm leaves when it executes Halt.
AfterHalt == fault = "none" /\ done /\ pc = 1 /\ Fresh

\* C8: a Bad opcode ends the run with an outcome distinct from Halt's: the
\* value returned and the state left by a first tick that decodes Bad are
\* not those left by a first tick that executes Halt.
C8_BadDistinctFromHalt ==
    ticks = 1 =>
        /\ (trace = << "Halt" >> => AfterHalt)
        /\ (trace = << "Bad" >> => ~AfterHalt)

----------------------------------------------------------------------------
(* Properties of the Lexer (SpecLex) *)

LastLexed == lexed[Len(lexed)]
TokenCalled == lexed' # lexed \/ fault' # fault

\* C11: token() is idempotent at end of input.  A call made when the input
\* is exhausted, or after a call that returned Eof, returns Eof again: it
\* does not fault, consumes nothing and yields no Newline or other token;
\* and Eof is only ever returned with the input exhausted.
C11_EofIdempotent ==
    [][ TokenCalled =>
          /\ (chars = <<>> \/ (lexed # <<>> /\ LastLexed.k = "Eof"))
                => /\ fault' = "none"
                   /\ lexed' = Append(lexed, LexEof)
                   /\ chars' = <<>>
          /\ (lexed' # lexed /\ lexed'[Len(lexed')].k = "Eof") => chars' = <<>>
      ]_vars

\* "gt", a line end and a comment: Op, Newline, then Eof twice.
C11_Witness ==
    /\ src = << "g", "t", "\n", ";" >>
    /\ lexed = << LexOp("Greater"), LexNewline, LexEof, LexEof >>

\* The calls of token() so far that returned a token other than Eof.
RealTokens == { i \in 1..Len(lexed) : lexed[i].k # "Eof" }

\* Every call that returned a token other than Eof consumed input.
EachTokenAdvances == Cardinality(RealTokens) <= byte

\* C12: lexing never stops, for every input character sequence.  No call
\* of token() aborts, every call that returned a token other than Eof
\* moved the input position forward, and after an InvalidInt, InvalidReg
\* or Unknown token the following calls go on producing tokens.
C12_LexerProgress ==
    /\ fault = "none"
    /\ EachTokenAdvances

\* The longest run of base-16 digits cs starts with.
RECURSIVE HexRun(_)
HexRun(cs) ==
    IF cs # <<>> /\ Head(cs) \in HexDigits THEN << Head(cs) >> \o HexRun(Tail(cs))
    ELSE <<>>

\* char::to_digit(16)
HexDigitValue(c) ==
    CASE c \in DecDigits -> DigitValue(c)
      [] c \in {"a", "A"} -> 10 [] c \in {"b", "B"} -> 11
      [] c \in {"c", "C"} -> 12 [] c \in {"d", "D"} -> 13
      [] c \in {"e", "E"} -> 14 [] c \in {"f", "F"} -> 15

\* A run of digits read in base 16, the low 8 bits of it.
RECURSIVE HexLow8(_, _)
HexLow8(cs, acc) ==
    IF cs = <<>> THEN acc
    ELSE HexLow8(Tail(cs), (acc * 16 + HexDigitValue(Head(cs))) % (MaxU8 + 1))

\* C13: `$` followed by one or more base-16 digits lexes to a single Reg
\* token whose value is the digit run read in base 16, truncated to 8 bits
\* (`$a` is Reg(10), `$10` is Reg(16)).  Stated of the first token of a
\* source that starts with such a register.
C13_HexRegister ==
    (/\ src # <<>> /\ Head(src) = "$"
     /\ HexRun(Tail(src)) # <<>>
     /\ lexed # <<>>)
      => lexed[1] = LexReg(HexLow8(HexRun(Tail(src)), 0))

\* The longest run of whitespace cs starts with.
RECURSIVE WhitespaceRun(_)
WhitespaceRun(cs) ==
    IF cs # <<>> /\ Head(cs) \in Whitespace
    THEN << Head(cs) >> \o WhitespaceRun(Tail(cs))
    ELSE <<>>

CrossesLine(ws) == \E i \in 1..Len(ws) : ws[i] = "\n"
AfterRun(cs) == SubSeq(cs, Len(WhitespaceRun(cs)) + 1, Len(cs))

----------------------------------------------------------------------------
(* Properties of the instructions (SpecExec) *)

\* This step is a call of exec_instruction that decodes op at pc.
Executes(op) ==
    /\ fault = "none"
    /\ ~Vm_is_done(pc, code)
    /\ OpCodeFrom(code[pc + 1]) = op
    /\ ticks' = ticks + 1

\* The i-th byte after the opcode byte, and whether n of them are there.
OperandByte(i) == code[pc + 1 + i]
HasOperands(n) == pc + 1 + n <= Len(code)
RegisterBytes(n) == HasOperands(n) /\ \A i \in 1..n : OperandByte(i) < NumRegs

\* Whether the exact result leaves the i32 range, the exact result when it
\* does not, the result wrapped to 32 bits.
Overflows(op, x, y) ==
    CASE op = "Add" -> AddOverflows(x, y)
      [] op = "Sub" -> SubOverflows(x, y)
      [] op = "Mul" -> MulOverflows(x, y)
Exact(op, x, y) ==
    CASE op = "Add" -> x + y
      [] op = "Sub" -> x - y
      [] op = "Mul" -> x * y
Wrapped(op, x, y) ==
    CASE op = "Add" -> WrapAdd(x, y)
      [] op = "Sub" -> WrapSub(x, y)
      [] op = "Mul" -> WrapMul(x, y)

Signed(op, x, y) ==
    CASE op = "Eq" -> x = y
      [] op = "NotEq" -> ~(x = y)
      [] op = "Greater" -> y < x
      [] op = "Less" -> x < y
      [] op = "GreaterEq" -> ~(x < y)
      [] op = "LessEq" -> ~(y < x)

\* C16: Eq, NotEq, Greater, Less, GreaterEq and LessEq with register
\* bytes a and b and a third byte in the buffer set cmp to the signed
\* comparison of regs[a] with regs[b], consume the third byte whatever it
\* is (pc advances by 4) and change no register (nor rem).
C16_Compare ==
    [][ \A op \in {"Eq", "NotEq", "Greater", "Less", "GreaterEq", "LessEq"} :
          (Executes(op) /\ RegisterBytes(2) /\ HasOperands(3)) =>
            /\ fault' = "none"
            /\ cmp' = Signed(op, regs[OperandByte(1)], regs[OperandByte(2)])
            /\ pc' = pc + 4
            /\ regs' = regs
            /\ rem' = rem
      ]_vars

\* test_opcode_eq: Eq on equal registers, register 1 changed to 20, Eq
\* again leaves cmp false.
C16_Witness ==
    /\ code = << 8, 0, 1, 0,  0, 1, 0, 20,  8, 0, 1, 0 >>
    /\ trace = << "Eq", "Load", "Eq" >>
    /\ regs[0] = 0 /\ regs[1] = 20
    /\ cmp = FALSE
    /\ pc = 12

\* Where a jump at offset pc with the register value d is said to go.
Target(op, d) ==
    CASE op = "Jump" -> d
      [] op = "JumpF" -> pc + 2 + d
      [] op = "JumpB" -> pc + 2 - d

\* Whether d is where the arithmetic on usize can take the jump.
TargetInRange(op, d) ==
    CASE op = "Jump" -> d >= 0
      [] op = "JumpF" -> d >= 0
      [] op = "JumpB" -> d >= 0 /\ d <= pc + 2

\* C17 as stated: after Jump the program counter is regs[r], after JumpF
\* it is p + 2 + regs[r], after JumpB it is p + 2 - regs[r] (the program
\* counter is a usize: it is one of these numbers only if the number is
\* not negative), and no register or flag changes.
C17_JumpTargets ==
    [][ \A op \in {"Jump", "JumpF", "JumpB"} :
          (Executes(op) /\ RegisterBytes(1)) =>
            /\ fault' = "none"
            /\ pc' >= 0
            /\ pc' = Target(op, regs[OperandByte(1)])
            /\ regs' = regs /\ cmp' = cmp
      ]_vars

\* C17 amended: no jump changes a register, rem or cmp.  With regs[r] not
\* negative (for JumpB: and not above p + 2) the program counter becomes
\* regs[r], p + 2 + regs[r], p + 2 - regs[r].  Otherwise Jump leaves the
\* usize with the bits of the negative value (beyond every buffer), and
\* JumpF and JumpB either panic on the usize arithmetic or leave the
\* wrapped result.
C17_JumpTargetsInRange ==
    [][ \A op \in {"Jump", "JumpF", "JumpB"} :
          (Executes(op) /\ RegisterBytes(1)) =>
            LET d == regs[OperandByte(1)] IN
            /\ regs' = regs /\ cmp' = cmp /\ rem' = rem
            /\ IF TargetInRange(op, d)
               THEN fault' = "none" /\ pc' >= 0 /\ pc' = Target(op, d)
               ELSE IF op = "Jump"
               THEN fault' = "none" /\ pc' < 0
               ELSE \/ fault' = "overflow"
                    \/ fault' = "none" /\ pc' = Target(op, d)
      ]_vars

\* JumpB at offset 0 with register 1 = 2 goes back to offset 0.
C17_Witness ==
    /\ code = << 7, 1 >>
    /\ regs[1] = 2
    /\ trace = << "JumpB" >>
    /\ pc = 0
    /\ fault = "none"

\* C18 as stated: JumpEq sets the program counter to regs[r] when cmp is
\* true and leaves it after its operand byte (p + 2) when cmp is false;
\* cmp and the registers are unchanged.
C18_JumpEq ==
    [][ (Executes("JumpEq") /\ RegisterBytes(1)) =>
          /\ fault' = "none"
          /\ pc' >= 0
          /\ pc' = (IF cmp THEN regs[OperandByte(1)] ELSE pc + 2)
          /\ regs' = regs /\ cmp' = cmp
      ]_vars

\* C18 amended: JumpEq changes no register, rem or cmp and never panics;
\* with cmp false the program counter is p + 2; with cmp true it is
\* regs[r] when regs[r] is not negative, and the usize with the bits of
\* regs[r] (beyond every buffer) when it is negative.
C18_JumpEqInRange ==
    [][ (Executes("JumpEq") /\ RegisterBytes(1)) =>
          LET d == regs[OperandByte(1)] IN
          /\ fault' = "none"
          /\ regs' = regs /\ cmp' = cmp /\ rem' = rem
          /\ ~cmp => pc' = pc + 2
          /\ (cmp /\ d >= 0) => pc' = d
          /\ (cmp /\ d < 0) => pc' < 0
      ]_vars

\* JumpEq with cmp false and register 1 = 500 falls through to offset 2.
C18_Witness ==
    /\ code = << 14, 1 >>
    /\ regs[1] = 500
    /\ cmp = FALSE
    /\ trace = << "JumpEq" >>
    /\ pc = 2

\* q and r are the quotient rounded toward zero and its remainder (zero, or
\* of the sign of x) of x by y # 0.
IsTruncating(x, y, q, r) ==
    /\ r = x - q * y
    /\ IF y > 0 THEN -y < r /\ r < y ELSE y < r /\ y < -r
    /\ r = 0 \/ (r < 0) = (x < 0)

\* m is r as an unsigned 32-bit number: r itself, or r + 2^32 for r < 0.
IsU32Of(m, r) ==
    /\ m.hi \in 0..65535 /\ m.lo \in 0..65535
    /\ IF r >= 0 THEN m.hi < 32768 /\ m.hi * 65536 + m.lo = r
       ELSE m.hi >= 32768 /\ (m.hi - 65536) * 65536 + m.lo = r

\* Div as C19 states it, for the step from this state.
DivAsStated ==
    LET x == regs[OperandByte(1)]
        y == regs[OperandByte(2)]
        c == OperandByte(3)
    IN /\ fault' = "none"
       /\ \A i \in 0..(NumRegs - 1) : i # c => regs'[i] = regs[i]
       /\ IsTruncating(x, y, regs'[c], x - regs'[c] * y)
       /\ IsU32Of(rem', x - regs'[c] * y)
       /\ cmp' = cmp

OperandCount(op) ==
    CASE op \in {"Halt", "Bad"} -> 0
      [] op \in {"Jump", "JumpF", "JumpB", "JumpEq"} -> 1
      [] OTHER -> 3
RegisterPositions(op) ==
    CASE op = "Load" -> {1}
      [] op \in {"Add", "Sub", "Mul", "Div"} -> {1, 2, 3}
      [] op \in {"Jump", "JumpF", "JumpB", "JumpEq"} -> {1}
      [] op \in {"Eq", "NotEq", "Greater", "Less", "GreaterEq", "LessEq"} -> {1, 2}
      [] OTHER -> {}

DivisionByZero(op) ==
    op = "Div" /\ RegisterBytes(3) /\ regs[OperandByte(2)] = 0
BadRegisterIndex(op) ==
    \E i \in RegisterPositions(op) : HasOperands(i) /\ OperandByte(i) >= NumRegs
MissingOperand(op) == ~HasOperands(OperandCount(op))

----------------------------------------------------------------------------
(* Properties of run and tick (SpecVm) *)

\* The opcode a call of exec_instruction decodes from this state.
Decoded == OpCodeFrom(code[pc + 1])

\* This step is a call of exec_instruction made by run.
RunTicks == vmst = "running" /\ ticks' = ticks + 1

\* C21: run() stops exactly at the first terminal condition.  It starts
\* with done = (pc at or beyond the length), so on such a buffer it
\* executes nothing; it makes a call only while not done, and never with
\* the program counter at or beyond the length; a call that completes
\* leaves done true exactly if it executed Halt, decoded Bad or left the
\* program counter at or beyond the length; run returns only when done,
\* and once done it makes no further call.
C21_RunStopsAtTerminal ==
    [][ /\ (vmst = "idle" /\ vmst' = "running")
             => done' = Vm_is_done(pc, code) /\ ticks' = ticks
        /\ RunTicks
             => /\ ~done /\ ~Vm_is_done(pc, code)
                /\ fault' = "none"
                     => done' = (\/ Decoded \in {"Halt", "Bad"}
                                 \/ Vm_is_done(pc', code))
        /\ (vmst = "running" /\ done) => ticks' = ticks /\ pc' = pc
        /\ (vmst = "running" /\ vmst' = "returned") => done
      ]_vars

\* Halt with bytes after it: run returned after one call, pc = 1 of 4.
C21_Witness ==
    /\ code = << 16, 0, 0, 0 >>
    /\ vmst = "returned"
    /\ trace = << "Halt" >>
    /\ ticks = 1
    /\ pc = 1

\* C22: `LOAD $0 #0` followed by `JMP $0` is an infinite loop.  Under
\* run() no call ends the run: the call at offset 0 executes Load, leaves
\* register 0 = 0 and the program counter at 4; the call at offset 4
\* executes Jump and sets the program counter back to 0 with the registers
\* as they were; neither returns done nor panics, so run never returns and
\* Load and Jump alternate without end.
C22_InfiniteLoop ==
    [][ code = LoopProgram =>
          /\ vmst' # "returned"
          /\ RunTicks =>
               /\ fault' = "none" /\ done' = FALSE
               /\ pc \in {0, 4}
               /\ pc = 0 => /\ Decoded = "Load"
                            /\ pc' = 4
                            /\ regs' = [regs EXCEPT ![0] = 0]
               /\ pc = 4 => /\ Decoded = "Jump"
                            /\ regs[0] = 0
                            /\ pc' = 0
                            /\ regs' = regs
      ]_vars

\* Four calls into the run: Load, Jump, Load, Jump, back at offset 0.
C22_Witness ==
    /\ code = LoopProgram
    /\ vmst = "running"
    /\ trace = << "Load", "Jump", "Load", "Jump" >>
    /\ pc = 0 /\ ~done /\ fault = "none"

----------------------------------------------------------------------------
(* Further properties of the assembler pipeline (Spec) *)

\* The Instruction with every populated operand written as a register.
AsRegisters(ins) ==
    [ins EXCEPT !.operands =
        [i \in 1..ArityMAX |-> IF @[i].k = "None" THEN None ELSE OperandReg(0)]]

\* C23: every Instruction the parser produces encodes to 1, 2, 3 or 4
\* bytes, and the length is that of the same opcode with register
\* operands: it depends on the opcode's arity, never on an operand having
\* been written as an integer.
C23_LengthByArity ==
    \A i \in 1..Len(instrs) :
        LET n == Len(InstructionBytes(instrs[i])) IN
        /\ n \in 1..4
        /\ n = Len(InstructionBytes(AsRegisters(instrs[i])))

----------------------------------------------------------------------------
(* Properties of the opcode table *)

\* C24: opcode numbering round-trips.  The opcodes other than Halt carry
\* the codes 0, 1, 2, ... without a gap, increasing in declaration order,
\* and decoding an assigned byte (a code of the table, or Halt's 254)
\* yields an opcode whose code is that byte: so does the Vm's first
\* decode_opcode, which reads code[0].
C24_NumberingRoundTrip ==
    /\ { as_u8(op) : op \in OpCodes \ {"Halt"} } = 0..(Cardinality(OpCodes) - 2)
    /\ \A i, j \in 1..Len(VARIANTS) :
          i < j => as_u8(VARIANTS[i]) < as_u8(VARIANTS[j])
    /\ \A b \in Assigned :
          /\ OpCodeFrom(b) \in OpCodes
          /\ as_u8(OpCodeFrom(b)) = b
    /\ (trace # <<>> /\ code[1] \in Assigned)
          => trace[1] \in OpCodes /\ as_u8(trace[1]) = code[1]

\* The part of C24 that holds: decoding a code of the table gives the
\* opcode with that code.
TableRoundTrip ==
    \A op \in OpCodes : OpCodeFrom(as_u8(op)) = op

----------------------------------------------------------------------------
(* Properties of an assembled LOAD (Spec) *)

\* The byte offset at which the k-th Instruction of a Program starts.
OffsetOf(is, k) == Len(ProgramBytes(SubSeq(is, 1, k - 1)))

\* `load $r #v`: LOAD with a register below 32 and an integer literal.
IsLoadRegInt(ins) ==
    /\ ins.opcode = "Load"
    /\ ins.operands[1].k = "Reg" /\ ins.operands[1].v < NumRegs
    /\ ins.operands[2].k = "Int"
    /\ ins.operands[3].k = "None"

----------------------------------------------------------------------------
(* What a call of exec_instruction may write (SpecExec) *)

Comparisons == {"Eq", "NotEq", "Greater", "Less", "GreaterEq", "LessEq"}
Arithmetic == {"Add", "Sub", "Mul", "Div"}

\* Register i is where the instruction at pc stores its result: the first
\* operand byte of Load, the third of Add, Sub, Mul and Div.
IsDestination(i) ==
    \/ Executes("Load") /\ HasOperands(1) /\ OperandByte(1) = i
    \/ \E op \in Arithmetic :
          Executes(op) /\ HasOperands(3) /\ OperandByte(3) = i

\* C26: a call of exec_instruction changes rem only when the instruction
\* is Div, cmp only when it is a comparison, and a general register only
\* when that register is the destination of a Load, Add, Sub, Mul or Div;
\* no step of tick or run changes the code buffer.
C26_Frame ==
    [][ /\ ticks' = ticks + 1 =>
             /\ rem' # rem => Executes("Div")
             /\ cmp' # cmp => \E op \in Comparisons : Executes(op)
             /\ \A i \in 0..(NumRegs - 1) :
                    regs'[i] # regs[i] => IsDestination(i)
        /\ code' = code
      ]_vars

\* Div $0 $1 $2 with the flag set: the quotient is in register 2, the
\* remainder in rem, and the flag still holds.
C26_Witness ==
    /\ code = << 4, 0, 1, 2 >>
    /\ trace = << "Div" >>
    /\ regs[0] = -7 /\ regs[1] = 2 /\ regs[2] = -3
    /\ rem = [hi |-> 65535, lo |-> 65535]
    /\ cmp = TRUE
    /\ fault = "none"

----------------------------------------------------------------------------
(* The Lexer as an Iterator (SpecLex) *)

\* <Lexer as Iterator>::next, called over and over on a new Lexer (whose
\* `current` is None): the tokens token() returned before its first Eof.
RECURSIVE Items(_)
Items(ts) ==
    IF ts = <<>> \/ Head(ts).k = "Eof" THEN <<>>
    ELSE << Head(ts) >> \o Items(Tail(ts))

\* The iterator has returned None.
Ended == \E i \in 1..Len(lexed) : lexed[i].k = "Eof"

\* C27: iterating the Lexer of " $1 $2" yields register tokens only, no
\* Newline and no error token, two of them in all, and the token at
\* 0-based position i is Reg(i).
C27_Registers ==
    src = RegistersSource =>
        /\ fault = "none"
        /\ \A i \in 1..Len(Items(lexed)) : Items(lexed)[i] = LexReg(i - 1)
        /\ Ended => Len(Items(lexed)) = 2

\* What the iteration of " $1 $2" does yield: Reg(1), then Reg(2), then
\* None.
RegistersLexed ==
    src = RegistersSource =>
        /\ fault = "none"
        /\ \A i \in 1..Len(Items(lexed)) : Items(lexed)[i] = LexReg(i)
        /\ Ended => Len(Items(lexed)) = 2

----------------------------------------------------------------------------
(* Ticks after a halt (SpecVm) *)

\* An earlier call of exec_instruction executed Halt or decoded Bad.
Stopped == \E i \in 1..Len(trace) : trace[i] \in {"Halt", "Bad"}

\* C28: halting is sticky.  Once a call of exec_instruction has executed
\* Halt or decoded Bad, no later call that returns changes a register, the
\* remainder, the flag or the program counter, whatever bytes follow in the
\* buffer.
C28_HaltSticky ==
    [][ (Stopped /\ ticks' = ticks + 1 /\ fault' = "none")
          => regs' = regs /\ rem' = rem /\ cmp' = cmp /\ pc' = pc
      ]_vars

----------------------------------------------------------------------------
(* Arithmetic of a new Vm (SpecVm) *)

\* C29: arithmetic never leaves the signed 32-bit range.  In every state a
\* new Vm reaches, each register holds a value of -2^31..2^31 - 1; every
\* Add, Sub and Mul with register indices below 32 finds operands whose
\* exact result is in that range and stores it; no Div divides -2^31 by -1.
C29_NoOverflow ==
    [][ /\ \A i \in 0..(NumRegs - 1) : regs[i] \in MinI32..MaxI32
        /\ \A op \in {"Add", "Sub", "Mul"} :
             (Executes(op) /\ RegisterBytes(3)) =>
                LET x == regs[OperandByte(1)]
                    y == regs[OperandByte(2)]
                IN /\ ~Overflows(op, x, y)
                   /\ fault' = "none"
                   /\ regs'[OperandByte(3)] = Exact(op, x, y)
        /\ (Executes("Div") /\ RegisterBytes(3)) =>
                ~(regs[OperandByte(1)] = MinI32 /\ regs[OperandByte(2)] = -1)
      ]_vars

----------------------------------------------------------------------------
(* repl/mod.rs: Repl.  A line is a sequence of one-character strings.     *)

\* Cmd::from_str: the spellings the declaration of Cmd lists.
CmdSpellings ==
    {
      <<<<":", "q", "u", "i", "t">>, "Quit">>,
      <<<<":", "q">>, "Quit">>,
      <<<<":", "Q">>, "Quit">>,
      <<<<":", "h", "i", "s", "t", "o", "r", "y">>, "History">>,
      <<<<":", "h">>, "History">>,
      <<<<":", "h", "i", "s", "t">>, "History">>,
      <<<<":", "p", "r", "o", "g", "r", "a", "m">>, "Program">>,
      <<<<":", "p", "r", "o", "g">>, "Program">>,
      <<<<":", "r", "e", "g", "i", "s", "t", "e", "r", "s">>, "Registers">>,
      <<<<":", "r">>, "Registers">>
    }

\* "" stands for None.
Cmd_from_str(word) ==
    IF \E s \in CmdSpellings : s[1] = word
    THEN (CHOOSE s \in CmdSpellings : s[1] = word)[2]
    ELSE ""

\* str::trim
RECURSIVE trim_start(_)
trim_start(cs) ==
    IF cs # <<>> /\ Head(cs) \in Whitespace THEN trim_start(Tail(cs)) ELSE cs
RECURSIVE trim_end(_)
trim_end(cs) ==
    IF cs # <<>> /\ cs[Len(cs)] \in Whitespace
    THEN trim_end(SubSeq(cs, 1, Len(cs) - 1))
    ELSE cs
trim(cs) == trim_end(trim_start(cs))

\* str::split(" "): the pieces between single blanks, empty ones included;
\* cur is the piece being read.
RECURSIVE split(_, _)
split(cs, cur) ==
    IF cs = <<>> THEN << cur >>
    ELSE IF Head(cs) = " " THEN << cur >> \o split(Tail(cs), <<>>)
    ELSE split(Tail(cs), Append(cur, Head(cs)))

\* The digits of u8::from_str_radix(_, 16) accumulated; -1 stands for Err
\* (a character that is no digit, a value above u8::MAX).
RECURSIVE HexFrom(_, _)
HexFrom(cs, acc) ==
    IF cs = <<>> THEN acc
    ELSE IF Head(cs) \notin HexDigits THEN -1
    ELSE LET v == acc * 16 + HexDigitValue(Head(cs)) IN
         IF v > MaxU8 THEN -1 ELSE HexFrom(Tail(cs), v)

\* u8::from_str_radix(chunk, 16): an optional '+', then one digit or more.
u8_from_str_radix(chunk) ==
    IF chunk = <<>> THEN -1
    ELSE LET digits == IF Head(chunk) = "+" THEN Tail(chunk) ELSE chunk
         IN IF digits = <<>> THEN -1 ELSE HexFrom(digits, 0)

\* The loop of parse_hex that answers Ok with the bytes read so far when a
\* chunk fails.
RECURSIVE parse_chunks_keep(_, _)
parse_chunks_keep(chunks, bytes) ==
    IF chunks = <<>> THEN [ok |-> TRUE, bytes |-> bytes]
    ELSE LET v == u8_from_str_radix(Head(chunks)) IN
         IF v < 0 THEN [ok |-> TRUE, bytes |-> bytes]
         ELSE parse_chunks_keep(Tail(chunks), Append(bytes, v))

\* parse_hex with that loop.
parse_hex_keep(s) == parse_chunks_keep(split(s, <<>>), <<>>)

\* The loop of parse_hex: the first chunk that fails returns Err.
RECURSIVE parse_chunks(_, _)
parse_chunks(chunks, bytes) ==
    IF chunks = <<>> THEN [ok |-> TRUE, bytes |-> bytes]
    ELSE LET v == u8_from_str_radix(Head(chunks)) IN
         IF v < 0 THEN [ok |-> FALSE, bytes |-> <<>>]
         ELSE parse_chunks(Tail(chunks), Append(bytes, v))

\* parse_hex
parse_hex(s) == parse_chunks(split(s, <<>>), <<>>)

\* Vm::add_byte: one byte appended to the code buffer.
add_byte(c, b) == Append(c, b)

\* `for byte in bytes { self.vm.add_byte(byte) }`
RECURSIVE add_bytes(_, _)
add_bytes(c, bytes) ==
    IF bytes = <<>> THEN c ELSE add_bytes(add_byte(c, Head(bytes)), Tail(bytes))

\* Repl::save_input
save_input(lg, s) ==
    IF \E i \in 1..Len(lg) : lg[i] = s THEN lg ELSE Append(lg, s)

\* Lines typed at the prompt: hex bytes that are instructions (Halt, Bad,
\* load $2 #500, add $0 $0 $0, a chunk with a sign), lines with a chunk
\* that is no hex byte (empty, after a good chunk, between two blanks,
\* above ff, a word that is no command), and the four commands.
TypedLines ==
    {
      <<>>,
      <<"1", "0">>,
      <<" ", "1", "1", " ">>,
      <<"0", " ", "2", " ", "1", " ", "f", "4">>,
      <<"1", " ", "0", " ", "0", " ", "0">>,
      <<"+", "1">>,
      <<"0", " ", "g">>,
      <<"1", " ", " ", "1">>,
      <<"1", "0", "0">>,
      <<":", "x">>,
      <<":", "q">>,
      <<":", "h">>,
      <<":", "p", "r", "o", "g">>,
      <<":", "r">>
    }

\* stdin.read_line: the text typed and the line end.
read_line(typed) == Append(typed, "\n")

\* One pass of the loop of Repl::run up to the call of tick.
ReplRead ==
    /\ rst = "prompt" /\ fault = "none"
    /\ ticks < MaxTicks
    /\ \E typed \in TypedLines :
         LET raw == read_line(typed)
             trimmed == trim(raw)
             c == Cmd_from_str(trimmed)
             r == parse_hex(trimmed)
         IN /\ buf' = raw
            /\ IF c # ""
               THEN /\ rst' = IF c = "Quit" THEN "exited" ELSE "prompt"
                    /\ UNCHANGED <<log, code>>
               ELSE IF r.ok
               THEN /\ log' = save_input(log, trimmed)
                    /\ code' = add_bytes(code, r.bytes)
                    /\ rst' = "tick"
               ELSE /\ rst' = "prompt"
                    /\ UNCHANGED <<log, code>>
    /\ UNCHANGED fault
    /\ UNCHANGED parserVars /\ UNCHANGED vmVars /\ UNCHANGED lexVars

\* `self.vm.tick()`, which ends the pass.
ReplTick ==
    /\ rst = "tick" /\ fault = "none"
    /\ Exec
    /\ rst' = "prompt"
    /\ UNCHANGED vmst

NextRepl ==
    \/ ReplRead
    \/ ReplTick

\* Repl::new: a new Vm with an empty code buffer and an empty log.
InitRepl ==
    /\ ParserNew(<<>>)
    /\ LexerNew(<<>>)
    /\ VmNew
    /\ code = <<>>
    /\ ReplNew

SpecRepl == InitRepl /\ [][NextRepl]_vars

----------------------------------------------------------------------------
(* Properties of the REPL (SpecRepl) *)

\* This step reads a line; the line it read, trimmed, and its chunks.
ReadsLine == rst = "prompt" /\ vars' # vars
LineRead == trim(buf')
ChunksRead == split(LineRead, <<>>)
IsCommand == Cmd_from_str(LineRead) # ""
SomeChunkFails ==
    \E i \in 1..Len(ChunksRead) : u8_from_str_radix(ChunksRead[i]) < 0
BytesRead == [i \in 1..Len(ChunksRead) |-> u8_from_str_radix(ChunksRead[i])]

\* C30: a line that is no built-in command and has a chunk that is no hex
\* byte appends no byte to the code buffer (not those of the chunks before
\* the bad one), is not saved to the history and does not tick the Vm; a
\* line whose chunks all parse appends its bytes in order and then ticks
\* the Vm exactly once; a built-in command neither appends nor ticks.
C30_ReplLines ==
    [][ /\ ReadsLine =>
             /\ ticks' = ticks
             /\ IsCommand => code' = code /\ rst' # "tick"
             /\ (~IsCommand /\ SomeChunkFails)
                  => code' = code /\ log' = log /\ rst' = "prompt"
             /\ (~IsCommand /\ ~SomeChunkFails)
                  => code' = code \o BytesRead /\ rst' = "tick"
        /\ (rst = "tick" /\ vars' # vars)
             => ticks' = ticks + 1 /\ code' = code /\ rst' = "prompt"
      ]_vars

\* `0 2 1 f4` was read, appended and ticked (register 2 holds 500); then
\* `0 g` was read: the buffer, the history and the Vm are as they were.
C30_Witness ==
    /\ buf = << "0", " ", "g", "\n" >>
    /\ code = << 0, 2, 1, 244 >>
    /\ log = << << "0", " ", "2", " ", "1", " ", "f", "4" >> >>
    /\ ticks = 1 /\ regs[2] = 500
    /\ rst = "prompt" /\ fault = "none"

====
